---- MODULE Spec2Model ----
(***************************************************************************)
(* Graph-structural decompositions of storm: the iterative Tarjan SCC      *)
(* decomposition (StronglyConnectedComponentDecomposition.cpp) and the     *)
(* maximal end component decomposition built on top of it                  *)
(* (MaximalEndComponentDecomposition.cpp).                                 *)
(*                                                                         *)
(* States and choices are numbered from 0 as in the source.  A sparse      *)
(* matrix is a sequence of rows, row r of the source being element r + 1;  *)
(* a row is the sequence of its entries in the matrix's native order.      *)
(***************************************************************************)
EXTENDS Integers, Sequences, FiniteSets, TLC

\* Number of states of the models explored (model.getNumberOfStates()).
NumStates == 3
\* Largest number of choices by which a nondeterministic model exceeds one
\* choice per state.
MaxExtraChoices == 1

States == 0 .. (NumStates - 1)

VARIABLES
    transitionMatrix,               \* model.getTransitionMatrix()
    nondeterministicChoiceIndices,  \* model.getNondeterministicChoiceIndices()
    subsystem,                      \* the subsystem argument
    dropNaiveSccs,                  \* option of the SCC decomposition
    onlyBottomSccs,                 \* option of the SCC decomposition
    tarjan,                         \* locals of performSccDecomposition(Helper) and this->blocks
    endComponentStateSets,          \* std::list<StateBlock> of MEC candidates
    mecIterator,                    \* position of mecIterator in the list (1-based)
    sccs,                           \* the SCC decomposition of the current candidate
    sccIterator,                    \* position of the range-for over sccs (1-based)
    statesToCheck,                  \* BitVector statesToCheck
    mecChanged,                     \* bool mecChanged
    mecBlocks,                      \* this->blocks of the MEC decomposition
    mecLabel,                       \* position in performMaximalEndComponentDecomposition
    passes,                         \* iterations of the loop over the candidates begun so far
    solver                          \* arguments, locals and buffers of solveEquationSystem

modelVars == <<transitionMatrix, nondeterministicChoiceIndices, subsystem,
               dropNaiveSccs, onlyBottomSccs, solver>>
mecVars == <<endComponentStateSets, mecIterator, sccs, sccIterator,
             statesToCheck, mecChanged, mecBlocks, mecLabel, passes>>
vars == <<transitionMatrix, nondeterministicChoiceIndices, subsystem,
          dropNaiveSccs, onlyBottomSccs, tarjan, endComponentStateSets,
          mecIterator, sccs, sccIterator, statesToCheck, mecChanged,
          mecBlocks, mecLabel, passes, solver>>

(***************************************************************************)
(* Generic helpers.                                                        *)
(***************************************************************************)
Min(a, b) == IF a <= b THEN a ELSE b

MinOf(S) == CHOOSE x \in S : \A y \in S : x <= y

Back(s) == s[Len(s)]

PopBack(s) == SubSeq(s, 1, Len(s) - 1)

\* The elements of a set of naturals as an ascending sequence (the iteration
\* order of a BitVector or VectorSet).
RECURSIVE Ascending(_)
Ascending(S) ==
    IF S = {} THEN <<>>
    ELSE LET m == MinOf(S) IN <<m>> \o Ascending(S \ {m})

Range(s) == { s[i] : i \in 1 .. Len(s) }

(***************************************************************************)
(* The sparse matrix views.                                                *)
(***************************************************************************)
\* transitionMatrix.getRow(row): the entries of one row.
GetRow(row) == transitionMatrix[row + 1]

RECURSIVE ConcatRows(_, _)
ConcatRows(from, to) ==
    IF from >= to THEN <<>> ELSE GetRow(from) \o ConcatRows(from + 1, to)

\* model.getRows(state): the entries of all choice rows of the state, in row
\* order.
GetRows(state) ==
    ConcatRows(nondeterministicChoiceIndices[state],
               nondeterministicChoiceIndices[state + 1])

\* The successor columns of a state in iteration order.
Successors(state) == [i \in 1 .. Len(GetRows(state)) |-> GetRows(state)[i].column]

(***************************************************************************)
(* StronglyConnectedComponentDecomposition: Tarjan's algorithm with        *)
(* explicit recursion stacks.  The record t holds the locals of            *)
(* performSccDecomposition and performSccDecompositionHelper together with *)
(* this->blocks; "state" is the position of the loop over the subsystem    *)
(* and "label" the program position.  Every operator takes the subsystem   *)
(* and the two options as arguments, since the MEC decomposition calls the *)
(* engine on its own candidates.                                           *)
(***************************************************************************)
InitTarjan ==
    [ tarjanStack                |-> <<>>,
      tarjanStackStates          |-> {},
      stateIndices               |-> [s \in States |-> 0],
      lowlinks                   |-> [s \in States |-> 0],
      visitedStates              |-> {},
      currentIndex               |-> 0,
      state                      |-> 0,
      recursionStateStack        |-> <<>>,
      recursionIteratorStack     |-> <<>>,
      statesWithSelfloop         |-> {},
      statesThatCanLeaveTheirScc |-> {},
      blocks                     |-> <<>>,
      label                      |-> "outer" ]

\* Mutant of NextStartStates: the test of visitedStates is missing.
NextStartStates_IgnoreVisited(t, sub) == { s \in sub : s >= t.state }

\* for (auto state : subsystem) if (!visitedStates.get(state)): the states
\* the loop can still start a search from.
NextStartStates(t, sub) ==
    { s \in sub : s >= t.state /\ s \notin t.visitedStates }

\* Call of performSccDecompositionHelper: fresh recursion stacks and bit
\* vectors, the start state and its first successor position pushed.
StartHelper(t, sub) ==
    LET startState == MinOf(NextStartStates(t, sub)) IN
    [t EXCEPT !.state                      = startState + 1,
              !.recursionStateStack        = <<startState>>,
              !.recursionIteratorStack     = <<1>>,
              !.statesWithSelfloop         = {},
              !.statesThatCanLeaveTheirScc = {},
              !.label                      = "forward"]

\* The loop over the subsystem is exhausted.
FinishScc(t) == [t EXCEPT !.label = "done"]

\* Mutant of StepForward: the on-stack bit of the state is not set.
StepForward_NoBit(t) ==
    LET currentState == Back(t.recursionStateStack) IN
    [t EXCEPT !.visitedStates     = @ \cup {currentState},
              !.stateIndices      = [@ EXCEPT ![currentState] = t.currentIndex],
              !.lowlinks          = [@ EXCEPT ![currentState] = t.currentIndex],
              !.currentIndex      = @ + 1,
              !.tarjanStack       = Append(@, currentState),
              !.label             = "successors"]

\* recursionStepForward: treatment of a newly discovered state.
StepForward(t) ==
    LET currentState == Back(t.recursionStateStack) IN
    [t EXCEPT !.visitedStates     = @ \cup {currentState},
              !.stateIndices      = [@ EXCEPT ![currentState] = t.currentIndex],
              !.lowlinks          = [@ EXCEPT ![currentState] = t.currentIndex],
              !.currentIndex      = @ + 1,
              !.tarjanStack       = Append(@, currentState),
              !.tarjanStackStates = @ \cup {currentState},
              !.label             = "successors"]

\* Mutant of InSubsystem: the subsystem test is missing.
InSubsystem_Always(sub, successor) == successor = successor

\* subsystem.get(successorIt->first)
InSubsystem(sub, successor) == successor \in sub

\* Mutant of LowlinkOnStack: the lowlink is not updated.
LowlinkOnStack_NoUpdate(t, currentState, successor) == t.lowlinks[currentState]

\* The lowlink of the current state after an edge to a state on the Tarjan
\* stack.
LowlinkOnStack(t, currentState, successor) ==
    Min(t.lowlinks[currentState], t.stateIndices[successor])

\* The successor the iterator on top of the iterator stack points at.
CurrentSuccessor(t) ==
    Successors(Back(t.recursionStateStack))[Back(t.recursionIteratorStack)]

\* successorIt != model.getRows(currentState).end()
HasSuccessor(t) ==
    Back(t.recursionIteratorStack) <= Len(GetRows(Back(t.recursionStateStack)))

\* Mutant of IsTreeEdge: the traversal never descends into a successor.
IsTreeEdge_Never(t, sub) == FALSE

\* Mutant of IsTreeEdge: the test of visitedStates is missing.
IsTreeEdge_IgnoreVisited(t, sub) == InSubsystem(sub, CurrentSuccessor(t))

\* subsystem.get(successor) && !visitedStates.get(successor)
IsTreeEdge(t, sub) ==
    /\ InSubsystem(sub, CurrentSuccessor(t))
    /\ CurrentSuccessor(t) \notin t.visitedStates

\* Mutant of IsStackEdge: the test of tarjanStackStates is missing.
IsStackEdge_AnyVisited(t, sub) ==
    /\ InSubsystem(sub, CurrentSuccessor(t))
    /\ CurrentSuccessor(t) \in t.visitedStates

\* subsystem.get(successor) && visitedStates.get(successor)
\*     && tarjanStackStates.get(successor)
IsStackEdge(t, sub) ==
    /\ InSubsystem(sub, CurrentSuccessor(t))
    /\ CurrentSuccessor(t) \in t.visitedStates
    /\ CurrentSuccessor(t) \in t.tarjanStackStates

\* Mutant of RecordSelfloop: self-loops are not recorded.
RecordSelfloop_Never(t, drop) == t.statesWithSelfloop

\* statesWithSelfloop after the self-loop test of one loop iteration.
RecordSelfloop(t, drop) ==
    IF drop /\ Back(t.recursionStateStack) = CurrentSuccessor(t)
    THEN t.statesWithSelfloop \cup {Back(t.recursionStateStack)}
    ELSE t.statesWithSelfloop

\* One iteration of the loop over the successors of the current state.
SuccessorStep(t, sub, drop) ==
    LET currentState == Back(t.recursionStateStack)
        successor    == CurrentSuccessor(t)
        selfloops    == RecordSelfloop(t, drop)
        advanced     == [t.recursionIteratorStack
                            EXCEPT ![Len(t.recursionIteratorStack)] = @ + 1]
    IN
    IF IsTreeEdge(t, sub)
    THEN \* descend: the iterator position is kept, the successor is pushed
         [t EXCEPT !.statesWithSelfloop     = selfloops,
                   !.recursionStateStack    = Append(@, successor),
                   !.recursionIteratorStack = Append(@, 1),
                   !.label                  = "forward"]
    ELSE IF IsStackEdge(t, sub)
    THEN [t EXCEPT !.statesWithSelfloop     = selfloops,
                   !.lowlinks = [@ EXCEPT ![currentState] =
                                    LowlinkOnStack(t, currentState, successor)],
                   !.recursionIteratorStack = advanced]
    ELSE [t EXCEPT !.statesWithSelfloop     = selfloops,
                   !.recursionIteratorStack = advanced]

\* Mutant of PopUntil: the topmost state only is popped.
PopUntil_One(stack, scc, currentState) ==
    [stack |-> PopBack(stack), scc |-> scc \cup {Back(stack)}]

\* do { lastState = tarjanStack.back(); pop; scc.insert(lastState); }
\* while (lastState != currentState).  The result is the remaining stack and
\* the popped states.
RECURSIVE PopUntil(_, _, _)
PopUntil(stack, scc, currentState) ==
    LET lastState == Back(stack)
        rest      == PopBack(stack)
        grown     == scc \cup {lastState}
    IN IF lastState = currentState \/ rest = <<>>
       THEN [stack |-> rest, scc |-> grown]
       ELSE PopUntil(rest, grown, currentState)

\* Mutant of KeepScc: a singleton is dropped whether or not it has a
\* self-loop.
KeepScc_SizeOnly(t, scc, isBottomScc, drop, bottom) ==
    /\ (~drop) \/ Cardinality(scc) > 1
    /\ (~bottom) \/ isBottomScc

\* bool keepScc
KeepScc(t, scc, isBottomScc, drop, bottom) ==
    /\ (~drop) \/ (Cardinality(scc) > 1 \/ MinOf(scc) \in t.statesWithSelfloop)
    /\ (~bottom) \/ isBottomScc

\* Mutant of EmplaceBack: the block is inserted at the front.
EmplaceBack_Front(blocks, scc) == <<scc>> \o blocks

\* this->blocks.emplace_back(std::move(scc))
EmplaceBack(blocks, scc) == Append(blocks, scc)

\* Mutant of StepClose: the current state is popped from the recursion
\* stacks without the test for a root, so no SCC is closed.
StepClose_NoPop(t, drop, bottom) ==
    LET newStack == PopBack(t.recursionStateStack) IN
    [t EXCEPT !.recursionStateStack    = newStack,
              !.recursionIteratorStack = PopBack(@),
              !.label = IF Len(newStack) > 0 THEN "backward" ELSE "outer"]

\* The end of the loop over the successors: close the SCC if the current
\* state is its root, then pop the current state from the recursion stacks.
StepClose(t, drop, bottom) ==
    LET currentState == Back(t.recursionStateStack)
        isRoot       == t.lowlinks[currentState] = t.stateIndices[currentState]
        popped       == PopUntil(t.tarjanStack, {}, currentState)
        isBottomScc  == ~(bottom /\ popped.scc \cap t.statesThatCanLeaveTheirScc # {})
        keepScc      == KeepScc(t, popped.scc, isBottomScc, drop, bottom)
        newStack     == PopBack(t.recursionStateStack)
    IN
    [t EXCEPT !.tarjanStack       = IF isRoot THEN popped.stack ELSE @,
              !.tarjanStackStates = IF isRoot THEN @ \ popped.scc ELSE @,
              !.blocks            = IF isRoot /\ keepScc
                                    THEN EmplaceBack(@, popped.scc) ELSE @,
              !.recursionStateStack    = newStack,
              !.recursionIteratorStack = PopBack(@),
              !.label = IF Len(newStack) > 0 THEN "backward" ELSE "outer"]

\* Whether the current state is marked as able to leave its SCC after the
\* return from the successor.
MarksCanLeave(bottom, lowlinkCurrent, lowlinkSuccessor) ==
    bottom /\ lowlinkCurrent # lowlinkSuccessor

\* Mutant of StepBackward: the lowlink of the successor is not taken over
\* after the return.
StepBackward_NoLowlink(t, bottom) ==
    [t EXCEPT !.recursionIteratorStack =
                  [@ EXCEPT ![Len(t.recursionIteratorStack)] = @ + 1],
              !.label = "successors"]

\* recursionStepBackward: the part after the recursive call, and the
\* increment of the successor iterator that ends the loop iteration.
StepBackward(t, bottom) ==
    LET currentState == Back(t.recursionStateStack)
        successor    == CurrentSuccessor(t)
        lowlink      == Min(t.lowlinks[currentState], t.lowlinks[successor])
    IN
    [t EXCEPT !.lowlinks = [@ EXCEPT ![currentState] = lowlink],
              !.statesThatCanLeaveTheirScc =
                  IF MarksCanLeave(bottom, lowlink, t.lowlinks[successor])
                  THEN @ \cup {currentState} ELSE @,
              !.recursionIteratorStack =
                  [@ EXCEPT ![Len(t.recursionIteratorStack)] = @ + 1],
              !.label = "successors"]

\* One step of the SCC engine from a record that is not "done".
SccStep(t, sub, drop, bottom) ==
    CASE t.label = "outer" ->
            IF NextStartStates(t, sub) # {} THEN StartHelper(t, sub)
            ELSE FinishScc(t)
      [] t.label = "forward" -> StepForward(t)
      [] t.label = "successors" ->
            IF HasSuccessor(t) THEN SuccessorStep(t, sub, drop)
            ELSE StepClose(t, drop, bottom)
      [] t.label = "backward" -> StepBackward(t, bottom)
      [] OTHER -> t

RECURSIVE SccRunFrom(_, _, _, _)
SccRunFrom(t, sub, drop, bottom) ==
    IF t.label = "done" THEN t
    ELSE SccRunFrom(SccStep(t, sub, drop, bottom), sub, drop, bottom)

\* StronglyConnectedComponentDecomposition(model, block, dropNaiveSccs,
\* onlyBottomSccs): the blocks of a complete run.
SccDecomposition(sub, drop, bottom) ==
    SccRunFrom(InitTarjan, sub, drop, bottom).blocks

(***************************************************************************)
(* The models explored.  An entry carries its column and its value; the    *)
(* value 1 stands for a positive probability.                              *)
(***************************************************************************)
RowOf(S) ==
    [i \in 1 .. Cardinality(S) |-> [column |-> Ascending(S)[i], value |-> 1]]

Rows == { RowOf(S) : S \in (SUBSET States) \ {{}} }

\* Choice index vectors: every state has at least one choice.
ChoiceIndexVectors ==
    { f \in [0 .. NumStates -> 0 .. (NumStates + MaxExtraChoices)] :
        /\ f[0] = 0
        /\ \A s \in States : f[s + 1] > f[s] }

DeterministicChoiceIndices == [s \in 0 .. NumStates |-> s]

\* No call of solveEquationSystem is in progress.
SolverIdle == [label |-> "idle"]

MecIdle ==
    /\ endComponentStateSets = <<>>
    /\ mecIterator = 1
    /\ sccs = <<>>
    /\ sccIterator = 1
    /\ statesToCheck = {}
    /\ mecChanged = FALSE
    /\ mecBlocks = <<>>
    /\ mecLabel = "idle"
    /\ passes = 0
    /\ solver = SolverIdle

(***************************************************************************)
(* The SCC decomposition of a model, one step of the engine per action.    *)
(***************************************************************************)
Init ==
    /\ nondeterministicChoiceIndices = DeterministicChoiceIndices
    /\ transitionMatrix \in [1 .. NumStates -> Rows]
    /\ subsystem \in SUBSET States
    /\ dropNaiveSccs \in BOOLEAN
    /\ onlyBottomSccs \in BOOLEAN
    /\ tarjan = InitTarjan
    /\ MecIdle

StartSearch ==
    /\ tarjan.label = "outer"
    /\ NextStartStates(tarjan, subsystem) # {}
    /\ tarjan' = StartHelper(tarjan, subsystem)
    /\ UNCHANGED <<modelVars, mecVars>>

Finish ==
    /\ tarjan.label = "outer"
    /\ NextStartStates(tarjan, subsystem) = {}
    /\ tarjan' = FinishScc(tarjan)
    /\ UNCHANGED <<modelVars, mecVars>>

Forward ==
    /\ tarjan.label = "forward"
    /\ tarjan' = StepForward(tarjan)
    /\ UNCHANGED <<modelVars, mecVars>>

Descend ==
    /\ tarjan.label = "successors"
    /\ HasSuccessor(tarjan)
    /\ IsTreeEdge(tarjan, subsystem)
    /\ tarjan' = SuccessorStep(tarjan, subsystem, dropNaiveSccs)
    /\ UNCHANGED <<modelVars, mecVars>>

StackEdge ==
    /\ tarjan.label = "successors"
    /\ HasSuccessor(tarjan)
    /\ IsStackEdge(tarjan, subsystem)
    /\ tarjan' = SuccessorStep(tarjan, subsystem, dropNaiveSccs)
    /\ UNCHANGED <<modelVars, mecVars>>

SkipEdge ==
    /\ tarjan.label = "successors"
    /\ HasSuccessor(tarjan)
    /\ ~IsTreeEdge(tarjan, subsystem)
    /\ ~IsStackEdge(tarjan, subsystem)
    /\ tarjan' = SuccessorStep(tarjan, subsystem, dropNaiveSccs)
    /\ UNCHANGED <<modelVars, mecVars>>

Close ==
    /\ tarjan.label = "successors"
    /\ ~HasSuccessor(tarjan)
    /\ tarjan' = StepClose(tarjan, dropNaiveSccs, onlyBottomSccs)
    /\ UNCHANGED <<modelVars, mecVars>>

Backward ==
    /\ tarjan.label = "backward"
    /\ tarjan' = StepBackward(tarjan, onlyBottomSccs)
    /\ UNCHANGED <<modelVars, mecVars>>

Next ==
    \/ StartSearch
    \/ Finish
    \/ Forward
    \/ Descend
    \/ StackEdge
    \/ SkipEdge
    \/ Close
    \/ Backward

Spec == Init /\ [][Next]_vars

\* A row like RowOf(S) whose entry for column z carries the value 0.
RowWithZero(S, z) ==
    [i \in 1 .. Cardinality(S) |->
        [column |-> Ascending(S)[i],
         value  |-> IF Ascending(S)[i] = z THEN 0 ELSE 1]]

\* Rows with at most one entry of value 0 next to at least one positive
\* entry.
ZeroRows ==
    Rows \cup { RowWithZero(S, z) : <<S, z>> \in
                  { p \in (SUBSET States) \X States :
                        p[2] \in p[1] /\ Cardinality(p[1]) >= 2 } }

\* The SCC decomposition of the whole state space of a deterministic model
\* whose matrix may store entries of value 0.
InitZeroWeight ==
    /\ nondeterministicChoiceIndices = DeterministicChoiceIndices
    /\ transitionMatrix \in [1 .. NumStates -> ZeroRows]
    /\ subsystem = States
    /\ dropNaiveSccs \in BOOLEAN
    /\ onlyBottomSccs = FALSE
    /\ tarjan = InitTarjan
    /\ MecIdle

SpecZeroWeight == InitZeroWeight /\ [][Next]_vars

(***************************************************************************)
(* MaximalEndComponentDecomposition.                                       *)
(***************************************************************************)
\* The choices of a state: [choiceIndices[state], choiceIndices[state + 1]).
ChoicesOf(state) ==
    nondeterministicChoiceIndices[state] ..
        (nondeterministicChoiceIndices[state + 1] - 1)

\* Mutant of ChoiceContained: one entry inside the block suffices.
ChoiceContained_Some(choice, block) ==
    \E i \in 1 .. Len(GetRow(choice)) : GetRow(choice)[i].column \in block

\* bool choiceContainedInMEC / choiceContained: every entry of the row lies
\* in the block.
ChoiceContained(choice, block) ==
    \A i \in 1 .. Len(GetRow(choice)) : GetRow(choice)[i].column \in block

\* Mutant of KeepStateInMEC: every choice has to stay inside the SCC.
KeepStateInMEC_AllChoices(state, scc) ==
    \A choice \in ChoicesOf(state) : ChoiceContained(choice, scc)

\* bool keepStateInMEC
KeepStateInMEC(state, scc) ==
    \E choice \in ChoicesOf(state) : ChoiceContained(choice, scc)

\* The arguments dropNaiveSccs and onlyBottomSccs of the SCC decomposition
\* of a candidate: sccs(model, mec, true).
MecDropNaiveSccs == TRUE
MecOnlyBottomSccs == FALSE

\* StronglyConnectedComponentDecomposition<ValueType> sccs(model, mec, true)
MecSccs(mec) == SccDecomposition(mec, MecDropNaiveSccs, MecOnlyBottomSccs)

\* statesToRemove of one iteration of the while loop.
StatesToRemove(toCheck, scc) ==
    { state \in toCheck : ~KeepStateInMEC(state, scc) }

\* statesToCheck after the iteration: the columns, still in the SCC, of the
\* entries of transitionMatrix.getRow(state) for the removed states.
StatesToReconsider(toRemove, scc) ==
    { t \in scc : \E state \in toRemove :
          /\ state < Len(transitionMatrix)
          /\ \E i \in 1 .. Len(GetRow(state)) : GetRow(state)[i].column = t }

\* transitionMatrix.getRow(state) is called with a state as row number.  In
\* a model with fewer rows than states the call can read past the last row;
\* the entries it then yields are arbitrary, so any states of the SCC may be
\* set in statesToCheck on top of the ones read from existing rows.
OutOfRangeReads(toRemove, scc) ==
    IF \E state \in toRemove : state >= Len(transitionMatrix)
    THEN SUBSET scc
    ELSE {{}}

\* Mutant of Erase: the last element is erased instead of the one at i.
Erase_Last(list, i) == SubSeq(list, 1, Len(list) - 1)

\* A sequence without its element at position i (std::list::erase).
Erase(list, i) == SubSeq(list, 1, i - 1) \o SubSeq(list, i + 1, Len(list))

\* Mutant of NonEmptyBlocks: every SCC is pushed back, empty or not.
NonEmptyBlocks_All(list) == list

\* The sccs that are pushed back: those that are not empty, in order.
RECURSIVE NonEmptyBlocks(_)
NonEmptyBlocks(list) ==
    IF list = <<>> THEN <<>>
    ELSE (IF Head(list) # {} THEN <<Head(list)>> ELSE <<>>)
             \o NonEmptyBlocks(Tail(list))

\* std::vector<uint_fast64_t> containedChoices of a state of a MEC.
ContainedChoices(state, mecStateSet) ==
    { choice \in ChoicesOf(state) : ChoiceContained(choice, mecStateSet) }

\* MaximalEndComponent newMec: the map from the states to their choices.
NewMec(mecStateSet) ==
    [state \in mecStateSet |-> ContainedChoices(state, mecStateSet)]

\* The locals of the SCC decomposition while no SCC decomposition is running
\* on its own.
TarjanIdle == [InitTarjan EXCEPT !.label = "idle"]

InitMec ==
    /\ nondeterministicChoiceIndices \in ChoiceIndexVectors
    /\ transitionMatrix \in [1 .. nondeterministicChoiceIndices[NumStates] -> Rows]
    /\ subsystem \in SUBSET States
    /\ dropNaiveSccs = MecDropNaiveSccs
    /\ onlyBottomSccs = MecOnlyBottomSccs
    /\ tarjan = TarjanIdle
    /\ endComponentStateSets = <<subsystem>>
    /\ mecIterator = 1
    /\ sccs = <<>>
    /\ sccIterator = 1
    /\ statesToCheck = {}
    /\ mecChanged = FALSE
    /\ mecBlocks = <<>>
    /\ mecLabel = "candidates"
    /\ passes = 0
    /\ solver = SolverIdle

\* Mutant of SeveralSccs: one SCC is enough to count as a change.
SeveralSccs_Any(decomposition) == Len(decomposition) >= 1

\* mecChanged |= sccs.size() > 1
SeveralSccs(decomposition) == Len(decomposition) > 1

\* Head of the loop over the candidates: the SCC decomposition of the
\* current candidate.
BeginPass ==
    /\ mecLabel = "candidates"
    /\ mecIterator <= Len(endComponentStateSets)
    /\ sccs' = MecSccs(endComponentStateSets[mecIterator])
    /\ mecChanged' = SeveralSccs(sccs')
    /\ sccIterator' = 1
    /\ mecLabel' = "sccs"
    /\ passes' = passes + 1
    /\ UNCHANGED <<modelVars, tarjan, endComponentStateSets, mecIterator,
                   statesToCheck, mecBlocks>>

\* Head of the loop over the SCCs: statesToCheck.set(scc.begin(), scc.end()).
EnterScc ==
    /\ mecLabel = "sccs"
    /\ sccIterator <= Len(sccs)
    /\ statesToCheck' = statesToCheck \cup sccs[sccIterator]
    /\ mecLabel' = "prune"
    /\ UNCHANGED <<modelVars, tarjan, passes, endComponentStateSets, mecIterator,
                   sccs, sccIterator, mecChanged, mecBlocks>>

\* One iteration of while (!statesToCheck.empty()).
PruneIteration ==
    /\ mecLabel = "prune"
    /\ statesToCheck # {}
    /\ LET scc      == sccs[sccIterator]
           toRemove == StatesToRemove(statesToCheck, scc)
           pruned   == scc \ toRemove
       IN /\ mecChanged' = (mecChanged \/ toRemove # {})
          /\ sccs' = [sccs EXCEPT ![sccIterator] = pruned]
          /\ \E extra \in OutOfRangeReads(toRemove, pruned) :
                statesToCheck' = StatesToReconsider(toRemove, pruned) \cup extra
    /\ UNCHANGED <<modelVars, tarjan, passes, endComponentStateSets, mecIterator,
                   sccIterator, mecBlocks, mecLabel>>

\* The while loop ends; the loop over the SCCs advances.
LeaveScc ==
    /\ mecLabel = "prune"
    /\ statesToCheck = {}
    /\ sccIterator' = sccIterator + 1
    /\ mecLabel' = "sccs"
    /\ UNCHANGED <<modelVars, tarjan, passes, endComponentStateSets, mecIterator,
                   sccs, statesToCheck, mecChanged, mecBlocks>>

\* Mutant of ReplaceCandidate: the candidate is not erased; the loop moves
\* on to the next one.
ReplaceCandidate_NoErase ==
    /\ mecLabel = "sccs"
    /\ sccIterator > Len(sccs)
    /\ mecChanged
    /\ endComponentStateSets' = endComponentStateSets \o NonEmptyBlocks(sccs)
    /\ mecIterator' = mecIterator + 1
    /\ mecLabel' = "candidates"
    /\ UNCHANGED <<modelVars, tarjan, passes, sccs, sccIterator,
                   statesToCheck, mecChanged, mecBlocks>>

\* Mutant of ReplaceCandidate: the candidate list shares the storage of the
\* subsystem argument instead of holding a copy, so replacing the candidate
\* changes the subsystem.
ReplaceCandidate_InPlace ==
    /\ mecLabel = "sccs"
    /\ sccIterator > Len(sccs)
    /\ mecChanged
    /\ endComponentStateSets' =
           Erase(endComponentStateSets \o NonEmptyBlocks(sccs), mecIterator)
    /\ subsystem' = UNION Range(endComponentStateSets')
    /\ mecLabel' = "candidates"
    /\ UNCHANGED <<transitionMatrix, nondeterministicChoiceIndices,
                   dropNaiveSccs, onlyBottomSccs, solver, tarjan, passes,
                   mecIterator, sccs, sccIterator, statesToCheck, mecChanged,
                   mecBlocks>>

\* if (mecChanged): the candidate is replaced by the non-empty SCCs.
ReplaceCandidate ==
    /\ mecLabel = "sccs"
    /\ sccIterator > Len(sccs)
    /\ mecChanged
    /\ endComponentStateSets' =
           Erase(endComponentStateSets \o NonEmptyBlocks(sccs), mecIterator)
    /\ mecLabel' = "candidates"
    /\ UNCHANGED <<modelVars, tarjan, passes, mecIterator, sccs, sccIterator,
                   statesToCheck, mecChanged, mecBlocks>>

\* Mutant of KeepCandidate: the loop does not move on to the next candidate.
KeepCandidate_NoAdvance ==
    /\ mecLabel = "sccs"
    /\ sccIterator > Len(sccs)
    /\ ~mecChanged
    /\ mecIterator' = mecIterator
    /\ mecLabel' = "candidates"
    /\ UNCHANGED <<modelVars, tarjan, passes, endComponentStateSets, sccs,
                   sccIterator, statesToCheck, mecChanged, mecBlocks>>

\* else: the candidate stays and the loop proceeds with the next one.
KeepCandidate ==
    /\ mecLabel = "sccs"
    /\ sccIterator > Len(sccs)
    /\ ~mecChanged
    /\ mecIterator' = mecIterator + 1
    /\ mecLabel' = "candidates"
    /\ UNCHANGED <<modelVars, tarjan, passes, endComponentStateSets, sccs,
                   sccIterator, statesToCheck, mecChanged, mecBlocks>>

\* After the loop: the choices of every state of every state set.
Materialize ==
    /\ mecLabel = "candidates"
    /\ mecIterator > Len(endComponentStateSets)
    /\ mecBlocks' = [i \in 1 .. Len(endComponentStateSets) |->
                        NewMec(endComponentStateSets[i])]
    /\ mecLabel' = "done"
    /\ UNCHANGED <<modelVars, tarjan, passes, endComponentStateSets, mecIterator,
                   sccs, sccIterator, statesToCheck, mecChanged>>

NextMec ==
    \/ BeginPass
    \/ EnterScc
    \/ PruneIteration
    \/ LeaveScc
    \/ ReplaceCandidate
    \/ KeepCandidate
    \/ Materialize

SpecMec == InitMec /\ [][NextMec]_vars

(***************************************************************************)
(* The MEC decomposition as a function of the subsystem, for models in     *)
(* which every state has a choice: the same loops, run to completion.      *)
(***************************************************************************)
\* while (!statesToCheck.empty()) on one SCC: the pruned SCC and mecChanged.
RECURSIVE PruneScc(_, _, _)
PruneScc(scc, toCheck, changed) ==
    IF toCheck = {} THEN [scc |-> scc, changed |-> changed]
    ELSE LET toRemove == StatesToRemove(toCheck, scc)
             pruned   == scc \ toRemove
         IN PruneScc(pruned, StatesToReconsider(toRemove, pruned),
                     changed \/ toRemove # {})

\* for (auto& scc : sccs) from position k on.
RECURSIVE PruneSccs(_, _, _)
PruneSccs(list, k, changed) ==
    IF k > Len(list) THEN [sccs |-> list, changed |-> changed]
    ELSE LET r == PruneScc(list[k], list[k], changed)
         IN PruneSccs([list EXCEPT ![k] = r.scc], k + 1, r.changed)

\* One iteration of the loop over the candidates: the list and the position
\* of mecIterator after it.
RefinePass(list, i) ==
    LET decomposition == MecSccs(list[i])
        r == PruneSccs(decomposition, 1, SeveralSccs(decomposition))
    IN IF r.changed
       THEN [list |-> Erase(list \o NonEmptyBlocks(r.sccs), i), it |-> i]
       ELSE [list |-> list, it |-> i + 1]

RECURSIVE MecFixpoint(_, _)
MecFixpoint(list, i) ==
    IF i > Len(list) THEN list
    ELSE LET r == RefinePass(list, i) IN MecFixpoint(r.list, r.it)

\* MaximalEndComponentDecomposition(model, subsystem): the blocks.
MecDecomposition(sub) ==
    LET list == MecFixpoint(<<sub>>, 1)
    IN [k \in 1 .. Len(list) |-> NewMec(list[k])]

\* Choice index vectors of models in which some state has no choice.
ZeroChoiceIndexVectors ==
    { f \in [0 .. NumStates -> 0 .. (NumStates + MaxExtraChoices)] :
        /\ f[0] = 0
        /\ \A s \in States : f[s + 1] >= f[s]
                             /\ f[s + 1] - f[s] <= 1 + MaxExtraChoices
        /\ \E s \in States : f[s + 1] = f[s] }

\* The MEC decomposition of a model in which some state has no choice.
InitMecZero ==
    /\ nondeterministicChoiceIndices \in ZeroChoiceIndexVectors
    /\ transitionMatrix \in [1 .. nondeterministicChoiceIndices[NumStates] -> Rows]
    /\ subsystem \in SUBSET States
    /\ dropNaiveSccs = MecDropNaiveSccs
    /\ onlyBottomSccs = MecOnlyBottomSccs
    /\ tarjan = TarjanIdle
    /\ endComponentStateSets = <<subsystem>>
    /\ mecIterator = 1
    /\ sccs = <<>>
    /\ sccIterator = 1
    /\ statesToCheck = {}
    /\ mecChanged = FALSE
    /\ mecBlocks = <<>>
    /\ mecLabel = "candidates"
    /\ passes = 0
    /\ solver = SolverIdle

SpecMecZero == InitMecZero /\ [][NextMec]_vars

(***************************************************************************)
(* Graph-theoretic reference notions, independent of the engines.          *)
(***************************************************************************)
\* State s has an edge to t: some choice row of s has t as a successor with
\* positive weight.
HasEdge(s, t) ==
    \E c \in ChoicesOf(s) : \E i \in 1 .. Len(GetRow(c)) :
        GetRow(c)[i].column = t /\ GetRow(c)[i].value > 0

RECURSIVE Closure(_, _)
Closure(S, sub) ==
    LET next == S \cup { t \in sub : \E s \in S : HasEdge(s, t) }
    IN IF next = S THEN S ELSE Closure(next, sub)

\* The states reachable from s using only edges between states of sub.
ReachableIn(s, sub) == Closure({s}, sub)

SameScc(s, t, sub) == t \in ReachableIn(s, sub) /\ s \in ReachableIn(t, sub)

\* The strongly connected components of the graph restricted to sub.
SccsOf(sub) == { { t \in sub : SameScc(s, t, sub) } : s \in sub }

IsTrivialScc(C) == Cardinality(C) = 1 /\ \A s \in C : ~HasEdge(s, s)

\* No state of C has an edge to a state of sub outside C.
IsBottomIn(C, sub) == \A s \in C : \A t \in sub : HasEdge(s, t) => t \in C

SccDone == tarjan.label = "done"

SccBlocks == tarjan.blocks

BlockSet == Range(SccBlocks)

\* The root of an output block: its state with the least Tarjan index.
RootOf(B) ==
    CHOOSE r \in B : \A s \in B : tarjan.stateIndices[r] <= tarjan.stateIndices[s]

(***************************************************************************)
(* Claims about the SCC decomposition (specification Spec).                *)
(***************************************************************************)
\* C1: without options, two states of the subsystem share an output block
\* if and only if each reaches the other inside the subsystem.
C1_BlocksAreSccs ==
    (SccDone /\ ~dropNaiveSccs /\ ~onlyBottomSccs) =>
        \A s \in subsystem : \A t \in subsystem :
            (\E i \in 1 .. Len(SccBlocks) : s \in SccBlocks[i] /\ t \in SccBlocks[i])
                <=> SameScc(s, t, subsystem)

\* A finished run without options that produced a block of two states next
\* to another block, in a proper subsystem or the full one.
C1_Witness ==
    /\ SccDone /\ ~dropNaiveSccs /\ ~onlyBottomSccs
    /\ Len(SccBlocks) = 2
    /\ \E i \in 1 .. Len(SccBlocks) : Cardinality(SccBlocks[i]) = 2

\* C2: without options, the union of the output blocks is the subsystem.
C2_UnionIsSubsystem ==
    (SccDone /\ ~dropNaiveSccs /\ ~onlyBottomSccs) =>
        UNION BlockSet = subsystem

\* A finished run without options on a proper, nonempty subsystem one of
\* whose states has an edge to a state outside the subsystem.
C2_Witness ==
    /\ SccDone /\ ~dropNaiveSccs /\ ~onlyBottomSccs
    /\ subsystem # {} /\ subsystem # States
    /\ \E s \in subsystem : \E t \in States \ subsystem : HasEdge(s, t)
    /\ UNION BlockSet = subsystem

\* C3: under every combination of options no state occurs in two blocks.
C3_BlocksDisjoint ==
    \A i \in 1 .. Len(SccBlocks) : \A j \in 1 .. Len(SccBlocks) :
        i # j => SccBlocks[i] \cap SccBlocks[j] = {}

\* A finished run that produced at least two blocks, the second search
\* having met states that the first one visited.
C3_Witness ==
    /\ SccDone
    /\ Len(SccBlocks) >= 2
    /\ \E s \in subsystem : \E t \in subsystem :
          /\ HasEdge(s, t)
          /\ tarjan.stateIndices[t] < tarjan.stateIndices[s]
          /\ ~SameScc(s, t, subsystem)

\* C4: with dropNaiveSccs alone, the output is exactly the set of SCCs of
\* the restricted graph that are not a singleton without self-loop.
C4_DropTrivialExact ==
    (SccDone /\ dropNaiveSccs /\ ~onlyBottomSccs) =>
        /\ BlockSet = { C \in SccsOf(subsystem) : ~IsTrivialScc(C) }
        /\ Len(SccBlocks) = Cardinality(BlockSet)

\* A finished run with dropNaiveSccs alone that dropped a trivial SCC and
\* kept a singleton with a self-loop.
C4_Witness ==
    /\ SccDone /\ dropNaiveSccs /\ ~onlyBottomSccs
    /\ \E C \in SccsOf(subsystem) : IsTrivialScc(C) /\ C \notin BlockSet
    /\ \E i \in 1 .. Len(SccBlocks) : Cardinality(SccBlocks[i]) = 1

\* C5: with onlyBottomSccs, no retained block has a state with an edge to a
\* subsystem state outside the block.
C5_BottomBlocksClosedInSubsystem ==
    (SccDone /\ onlyBottomSccs) =>
        \A i \in 1 .. Len(SccBlocks) : IsBottomIn(SccBlocks[i], subsystem)

\* C6: with onlyBottomSccs, every successor of every state of every block
\* lies in the block, members of the subsystem or not.
C6_BottomBlocksClosed ==
    (SccDone /\ onlyBottomSccs) =>
        \A i \in 1 .. Len(SccBlocks) : IsBottomIn(SccBlocks[i], States)

\* C7: with onlyBottomSccs alone, every SCC of the restricted graph without
\* an edge to a subsystem state outside itself is in the output.
C7_EveryBottomSccKept ==
    (SccDone /\ onlyBottomSccs /\ ~dropNaiveSccs) =>
        \A C \in SccsOf(subsystem) :
            IsBottomIn(C, subsystem) => C \in BlockSet

\* C8 as stated: a block whose root was discovered earlier comes earlier.
C8_DiscoveryOrder ==
    SccDone =>
        \A i \in 1 .. Len(SccBlocks) : \A j \in 1 .. Len(SccBlocks) :
            tarjan.stateIndices[RootOf(SccBlocks[i])]
                < tarjan.stateIndices[RootOf(SccBlocks[j])] => i < j

\* C8 amended: the blocks appear in the order in which their roots were
\* closed.  Of two blocks, the one whose root was discovered first comes
\* first exactly when the other root is not reachable from it inside the
\* subsystem; a block whose root is reachable from an earlier root is
\* closed, and emitted, before that root's block.
C8_CloseOrder ==
    SccDone =>
        \A i \in 1 .. Len(SccBlocks) : \A j \in 1 .. Len(SccBlocks) :
            tarjan.stateIndices[RootOf(SccBlocks[i])]
                < tarjan.stateIndices[RootOf(SccBlocks[j])] =>
            (i < j <=> RootOf(SccBlocks[j])
                          \notin ReachableIn(RootOf(SccBlocks[i]), subsystem))

\* A finished run with three blocks in which a later discovered root was
\* emitted before an earlier one and another after it.
C8_Witness ==
    /\ SccDone
    /\ Len(SccBlocks) = 3
    /\ \E i \in 1 .. 3 : \E j \in 1 .. 3 :
          /\ i < j
          /\ tarjan.stateIndices[RootOf(SccBlocks[i])]
                > tarjan.stateIndices[RootOf(SccBlocks[j])]
    /\ \E i \in 1 .. 3 : \E j \in 1 .. 3 :
          /\ i < j
          /\ tarjan.stateIndices[RootOf(SccBlocks[i])]
                < tarjan.stateIndices[RootOf(SccBlocks[j])]

(***************************************************************************)
(* End components, independent of the engine.                              *)
(***************************************************************************)
\* The successors of a choice row with positive weight.
RowSuccessors(c) ==
    { GetRow(c)[i].column : i \in { k \in 1 .. Len(GetRow(c)) : GetRow(c)[k].value > 0 } }

\* The choices of s all of whose successors lie in B.
ChoicesInside(s, B) == { c \in ChoicesOf(s) : RowSuccessors(c) \subseteq B }

RECURSIVE EcClosure(_, _)
EcClosure(S, B) ==
    LET next == S \cup { t \in B : \E s \in S : \E c \in ChoicesInside(s, B) :
                            t \in RowSuccessors(c) }
    IN IF next = S THEN S ELSE EcClosure(next, B)

\* B with the choices that stay inside B is an end component: every state
\* has such a choice and B is strongly connected under these choices.
IsEndComponent(B) ==
    /\ B # {}
    /\ \A s \in B : ChoicesInside(s, B) # {}
    /\ \A s \in B : EcClosure({s}, B) = B

\* The states reachable from the states of S inside the block of a MEC by
\* way of the choices the MEC retained.
RECURSIVE RetainedClosure(_, _)
RetainedClosure(S, mec) ==
    LET next == S \cup { t \in DOMAIN mec : \E s \in S : \E c \in mec[s] :
                            t \in RowSuccessors(c) }
    IN IF next = S THEN S ELSE RetainedClosure(next, mec)

MecDone == mecLabel = "done"

(***************************************************************************)
(* Claims about the MEC decomposition (specification SpecMec).             *)
(***************************************************************************)
\* C9: every state of every output block belongs to some end component
\* contained in the subsystem.
C9_OnlyEndComponentStates ==
    MecDone =>
        \A i \in 1 .. Len(mecBlocks) : \A s \in DOMAIN mecBlocks[i] :
            \E B \in SUBSET subsystem : s \in B /\ IsEndComponent(B)

\* C10: inside every output block every state reaches every other state by
\* retained choices through states of the block only.
C10_BlocksStronglyConnected ==
    MecDone =>
        \A i \in 1 .. Len(mecBlocks) : \A s \in DOMAIN mecBlocks[i] :
            RetainedClosure({s}, mecBlocks[i]) = DOMAIN mecBlocks[i]

\* The columns of all entries of a choice row.
RowColumns(c) == { GetRow(c)[i].column : i \in 1 .. Len(GetRow(c)) }

\* C11: every state of every output block has at least one retained choice.
C11_EveryStateRetainsAChoice ==
    MecDone =>
        \A i \in 1 .. Len(mecBlocks) : \A s \in DOMAIN mecBlocks[i] :
            mecBlocks[i][s] # {}

\* C12: the retained choices of a state of a block B are exactly the choices
\* of the state all of whose successors lie in B.
C12_RetainedChoicesExact ==
    MecDone =>
        \A i \in 1 .. Len(mecBlocks) : \A s \in DOMAIN mecBlocks[i] :
            mecBlocks[i][s] =
                { c \in nondeterministicChoiceIndices[s] ..
                            (nondeterministicChoiceIndices[s + 1] - 1) :
                      RowColumns(c) \subseteq DOMAIN mecBlocks[i] }

\* A finished run with a block of two states one of which retains one of
\* its two choices, the other choice having a successor inside and a
\* successor outside the block.
C12_Witness ==
    /\ MecDone
    /\ \E i \in 1 .. Len(mecBlocks) :
          /\ Cardinality(DOMAIN mecBlocks[i]) = 2
          /\ \E s \in DOMAIN mecBlocks[i] :
                /\ Cardinality(mecBlocks[i][s]) = 1
                /\ \E c \in ChoicesOf(s) \ mecBlocks[i][s] :
                      /\ RowColumns(c) \cap DOMAIN mecBlocks[i] # {}
                      /\ RowColumns(c) \ DOMAIN mecBlocks[i] # {}

\* The states of all output blocks.
MecStates == UNION { DOMAIN mecBlocks[i] : i \in 1 .. Len(mecBlocks) }

\* State s has a self-choice: a choice whose every successor is s.
HasSelfChoice(s) == \E c \in ChoicesOf(s) : RowColumns(c) \subseteq {s}

\* C13: every end component contained in the subsystem lies inside a single
\* output block.
C13_Maximal ==
    MecDone =>
        \A B \in SUBSET subsystem :
            IsEndComponent(B) =>
                \E i \in 1 .. Len(mecBlocks) : B \subseteq DOMAIN mecBlocks[i]

\* A finished run in which the candidate was replaced: a block that is an
\* end component of two states, and a subsystem state outside every block.
C13_Witness ==
    /\ MecDone
    /\ subsystem \ MecStates # {}
    /\ \E i \in 1 .. Len(mecBlocks) :
          /\ Cardinality(DOMAIN mecBlocks[i]) = 2
          /\ IsEndComponent(DOMAIN mecBlocks[i])

\* C14: no state is a key of two output MaximalEndComponents.
C14_MecBlocksDisjoint ==
    MecDone =>
        \A i \in 1 .. Len(mecBlocks) : \A j \in 1 .. Len(mecBlocks) :
            i # j => DOMAIN mecBlocks[i] \cap DOMAIN mecBlocks[j] = {}

\* A finished run with three blocks that came from replacing candidates.
C14_Witness ==
    /\ MecDone
    /\ Len(mecBlocks) = 3
    /\ \A i \in 1 .. Len(mecBlocks) : DOMAIN mecBlocks[i] # {}

\* C15: every output block is nonempty, and an empty subsystem gives a
\* decomposition without blocks.
C15_BlocksNonempty ==
    MecDone =>
        /\ \A i \in 1 .. Len(mecBlocks) : DOMAIN mecBlocks[i] # {}
        /\ subsystem = {} => Len(mecBlocks) = 0

\* C16: no output block is a singleton whose state has no self-choice.
C16_NoSingletonWithoutSelfChoice ==
    MecDone =>
        \A i \in 1 .. Len(mecBlocks) : \A s \in DOMAIN mecBlocks[i] :
            DOMAIN mecBlocks[i] = {s} => HasSelfChoice(s)

\* C17: every subsystem state with a self-choice is in some output block
\* and retains its self-choices.
C17_SelfChoiceStatesKept ==
    MecDone =>
        \A s \in subsystem : \A c \in ChoicesOf(s) :
            RowColumns(c) \subseteq {s} =>
                \E i \in 1 .. Len(mecBlocks) :
                    s \in DOMAIN mecBlocks[i] /\ c \in mecBlocks[i][s]

\* A finished run in which a state with a self-choice ended in a block of
\* its own after its candidate was replaced, a state of another SCC of the
\* candidate having been removed.
C17_Witness ==
    /\ MecDone
    /\ \E s \in subsystem :
          /\ HasSelfChoice(s)
          /\ \E i \in 1 .. Len(mecBlocks) : DOMAIN mecBlocks[i] = {s}
    /\ \E t \in subsystem : t \notin MecStates /\ \E u \in subsystem : u # t /\ SameScc(t, u, subsystem)

\* C18: a state without choices is in no output block.
C18_NoChoicelessState ==
    MecDone =>
        \A s \in MecStates :
            nondeterministicChoiceIndices[s] # nondeterministicChoiceIndices[s + 1]

\* C19: the MEC decomposition of the union of the states of the output
\* blocks has the same blocks, states and retained choices, as the output.
C19_Idempotent ==
    MecDone => Range(MecDecomposition(MecStates)) = Range(mecBlocks)

RECURSIVE SumFrom(_, _)
SumFrom(weights, from) ==
    IF from > Len(weights) THEN 0
    ELSE weights[from] + SumFrom(weights, from + 1)

\* What a candidate can still cost in passes: a pass on it either keeps it
\* or replaces it by blocks of smaller total weight.
CandidateWeight(block) ==
    IF block = {} THEN 1 ELSE 2 * Cardinality(block) - 1

\* What an SCC can still cost in steps of the loop over the SCCs: entering
\* it, one prune iteration per state and a last one, leaving it.
SccWeight(scc) == 2 * Cardinality(scc) + 3

CandidateWeights == [i \in 1 .. Len(endComponentStateSets) |->
                         CandidateWeight(endComponentStateSets[i])]

SccWeights == [i \in 1 .. Len(sccs) |-> SccWeight(sccs[i])]

\* Strict upper bound of the steps of one pass.
PassWeight == 5 * NumStates + 3

\* Steps left in the current pass.
PassVariant ==
    CASE mecLabel = "candidates" -> PassWeight - 1
      [] mecLabel = "sccs" -> SumFrom(SccWeights, sccIterator) + 1
      [] mecLabel = "prune" ->
             SumFrom(SccWeights, sccIterator + 1) + 1
                 + 2 * Cardinality(sccs[sccIterator])
                 + (IF statesToCheck # {} THEN 1 ELSE 0) + 1
      [] OTHER -> 0

\* A natural number that bounds the steps the loops can still take.
Variant ==
    IF mecLabel = "done" THEN 0
    ELSE SumFrom(CandidateWeights, mecIterator) * PassWeight
             + PassVariant

\* C21: the MEC decomposition terminates: every step of the loop over the
\* candidates, of the loop over the SCCs and of the prune loop strictly
\* decreases a natural number, so the end of the candidate list is reached
\* after finitely many passes.
C21_MecTerminates == [][Variant' < Variant /\ Variant' >= 0]_vars

\* A finished run in which a candidate was replaced: two blocks came out of
\* the one initial candidate.
C21_Witness == MecDone /\ Len(mecBlocks) >= 2

(***************************************************************************)
(* Claims about the traversal of the SCC decomposition.                    *)
(***************************************************************************)
\* The states that have a frame on the recursion stack.
FrameStates == Range(tarjan.recursionStateStack)

\* Iterations of the successor loops that are still to come: those left in
\* the frames, and all of those of the states no frame was pushed for yet.
RemainingIterations ==
    SumFrom([k \in 1 .. Len(tarjan.recursionStateStack) |->
                Len(GetRows(tarjan.recursionStateStack[k])) + 1
                    - tarjan.recursionIteratorStack[k]], 1)
    + SumFrom([k \in 1 .. NumStates |->
                IF /\ (k - 1) \in subsystem
                   /\ (k - 1) \notin tarjan.visitedStates
                   /\ (k - 1) \notin FrameStates
                THEN Len(GetRows(k - 1)) ELSE 0], 1)

\* A natural number that bounds the steps the traversal can still take.
SccVariant ==
    4 * RemainingIterations
    + 4 * Cardinality((subsystem \ tarjan.visitedStates) \ FrameStates)
    + 2 * Len(tarjan.recursionStateStack)
    + (IF tarjan.label \in {"outer", "forward", "backward"} THEN 1 ELSE 0)

\* A frame is pushed: the recursion stack grows by one state.
FramePushed ==
    Len(tarjan'.recursionStateStack) > Len(tarjan.recursionStateStack)

\* C22: the SCC decomposition terminates (every step decreases a natural
\* number); a frame is pushed, and an index assigned, only for a state of
\* the subsystem that was not visited and has no frame yet, so every state
\* is visited at most once and none outside the subsystem; and at the end
\* every state of the subsystem has been visited.
C22_VisitsSubsystemOnce ==
    /\ [][SccVariant' < SccVariant /\ SccVariant' >= 0]_vars
    /\ [][FramePushed =>
            /\ Back(tarjan'.recursionStateStack) \in subsystem
            /\ Back(tarjan'.recursionStateStack) \notin tarjan.visitedStates
            /\ Back(tarjan'.recursionStateStack) \notin FrameStates]_vars
    /\ [](tarjan.label = "forward" =>
            Back(tarjan.recursionStateStack) \notin tarjan.visitedStates)
    /\ [](tarjan.visitedStates \subseteq subsystem)
    /\ [](SccDone => tarjan.visitedStates = subsystem)

\* A finished traversal of a proper subsystem of at least two states with
\* an edge that leaves the subsystem and an edge that stays inside.
C22_Witness ==
    /\ SccDone
    /\ Cardinality(subsystem) >= 2
    /\ \E s \in subsystem : \E t \in States \ subsystem : HasEdge(s, t)
    /\ \E s \in subsystem : \E t \in subsystem : s # t /\ HasEdge(s, t)

(***************************************************************************)
(* Both engines: a run of the SCC decomposition or of the MEC              *)
(* decomposition.                                                          *)
(***************************************************************************)
InitEngines == Init \/ InitMec

NextEngines ==
    \/ Next
    \/ NextMec

SpecEngines == InitEngines /\ [][NextEngines]_vars

\* C23: no step of the SCC decomposition or of the MEC decomposition changes
\* the transition matrix, the choice indices or the subsystem.
C23_InputsUnchanged ==
    [][/\ transitionMatrix' = transitionMatrix
       /\ nondeterministicChoiceIndices' = nondeterministicChoiceIndices
       /\ subsystem' = subsystem]_vars

\* A finished SCC decomposition that dropped states of its subsystem, or a
\* finished MEC decomposition that pruned states of its subsystem.
C23_Witness ==
    \/ SccDone /\ UNION BlockSet # subsystem
    \/ MecDone /\ MecStates # subsystem

\* The candidate the current pass works on.
CurrentCandidate == endComponentStateSets[mecIterator]

\* The SCC decomposition of the current candidate has just been computed.
PassBegun == mecLabel = "sccs" /\ sccIterator = 1

\* C24: the SCCs examined in a pass are pairwise disjoint and their union is
\* the whole candidate: a singleton SCC without self-loop is among them.
C24_SccsCoverCandidate ==
    PassBegun =>
        /\ UNION Range(sccs) = CurrentCandidate
        /\ \A i \in 1 .. Len(sccs) : \A j \in 1 .. Len(sccs) :
               i # j => sccs[i] \cap sccs[j] = {}

\* The loop over the SCCs of the pass has ended: the candidate is about to
\* be kept or replaced.
PassDecision == mecLabel = "sccs" /\ sccIterator > Len(sccs)

\* C25: at the end of a pass the candidate is kept (mecChanged is false)
\* exactly if its SCC decomposition is one SCC equal to the candidate from
\* which the prune removed no state; otherwise it is replaced.
C25_KeptOnlyIfOneUnprunedScc ==
    PassDecision => (~mecChanged <=> sccs = <<CurrentCandidate>>)

\* The states of scc that have a choice row with a state of removed among
\* its successors.
PredecessorsInside(removed, scc) ==
    { s \in scc : \E choice \in ChoicesOf(s) :
          \E i \in 1 .. Len(GetRow(choice)) : GetRow(choice)[i].column \in removed }

\* C26: an iteration of the inner prune that removes the set toRemove from
\* the SCC leaves in statesToCheck exactly the states still in the SCC that
\* have a choice row with a just-removed state as successor.
C26_RecheckPredecessors ==
    [][(mecLabel = "prune" /\ statesToCheck # {}) =>
          statesToCheck' =
              PredecessorsInside(sccs[sccIterator] \ sccs'[sccIterator],
                                 sccs'[sccIterator])]_vars

\* The inner prune of the current SCC has finished.
PruneFinished == mecLabel = "prune" /\ statesToCheck = {}

\* C27: when the inner prune of an SCC finishes, every state left in the SCC
\* has a choice all of whose successors are left in the SCC.
C27_PrunedSccClosed ==
    PruneFinished =>
        \A s \in sccs[sccIterator] :
            \E choice \in ChoicesOf(s) :
                \A i \in 1 .. Len(GetRow(choice)) :
                    GetRow(choice)[i].column \in sccs[sccIterator]

\* C28: a pass that changed its candidate K erases K from the list, leaves
\* the other candidates as they are and in their order, and appends only
\* nonempty proper subsets of K: an SCC emptied by the prune is not appended.
C28_ReplacedByProperSubsets ==
    [][(PassDecision /\ mecChanged) =>
          LET kept == Erase(endComponentStateSets, mecIterator) IN
          /\ Len(endComponentStateSets') >= Len(kept)
          /\ SubSeq(endComponentStateSets', 1, Len(kept)) = kept
          /\ \A j \in (Len(kept) + 1) .. Len(endComponentStateSets') :
                /\ endComponentStateSets'[j] # {}
                /\ endComponentStateSets'[j] \subseteq CurrentCandidate
                /\ endComponentStateSets'[j] # CurrentCandidate]_vars

\* A candidate has just been replaced after a pass in which the prune emptied
\* one SCC and left another one.
C28_Witness ==
    /\ mecLabel = "candidates"
    /\ mecChanged
    /\ \E i \in 1 .. Len(sccs) : sccs[i] = {}
    /\ \E i \in 1 .. Len(sccs) : sccs[i] # {}
    /\ Len(endComponentStateSets) >= 1

\* C29 as stated: one MEC run makes at most N passes, N the number of states
\* of the model.
C29_PassesAtMostN == passes <= NumStates

\* C29, amended: one MEC run makes at most N + 1 passes.
C29_PassesAtMostNPlusOne == passes <= NumStates + 1

\* A finished run that took N + 1 passes.
C29_Witness == MecDone /\ passes = NumStates + 1

\* The states of the candidates in the working list.
CandidateStates == UNION Range(endComponentStateSets)

\* C30: at every point of the MEC loop the candidates in the working list
\* are pairwise disjoint subsets of the subsystem, and no step adds a state
\* to the union of the candidates.
C30_CandidatesDisjointShrinking ==
    /\ [](\A i \in 1 .. Len(endComponentStateSets) :
             /\ endComponentStateSets[i] \subseteq subsystem
             /\ \A j \in 1 .. Len(endComponentStateSets) :
                    i # j => endComponentStateSets[i] \cap endComponentStateSets[j] = {})
    /\ [][CandidateStates' \subseteq CandidateStates]_vars

\* Between two passes: the list holds at least two candidates and has lost
\* a state of the subsystem.
C30_Witness ==
    /\ mecLabel = "candidates"
    /\ Len(endComponentStateSets) >= 2
    /\ CandidateStates # subsystem
    /\ mecIterator <= Len(endComponentStateSets)

(***************************************************************************)
(* Claims about the stacks of the SCC traversal.                           *)
(***************************************************************************)
\* The state the traversal is working on.
CurrentState == Back(tarjan.recursionStateStack)

\* The loop over the successors of the current state has ended and the
\* current state is the root of an SCC: the pop loop is about to run.
AtRoot ==
    /\ tarjan.label = "successors"
    /\ ~HasSuccessor(tarjan)
    /\ tarjan.lowlinks[CurrentState] = tarjan.stateIndices[CurrentState]

\* The positions of the open-path stack that hold state s.
PositionsOf(s) ==
    { k \in 1 .. Len(tarjan.tarjanStack) : tarjan.tarjanStack[k] = s }

\* C31: when the close step finds lowlink[current] = index[current], the
\* current state is on the open-path stack, and the pop loop removes exactly
\* the part of the stack from the current state to the top: it stops at the
\* current state and never runs on an empty stack.
C31_PopStopsAtCurrent ==
    /\ [](AtRoot => PositionsOf(CurrentState) # {})
    /\ [][AtRoot =>
            \E pos \in PositionsOf(CurrentState) :
                /\ tarjan'.tarjanStack = SubSeq(tarjan.tarjanStack, 1, pos - 1)
                /\ tarjan'.tarjanStackStates =
                       tarjan.tarjanStackStates
                           \ { tarjan.tarjanStack[k] :
                                   k \in pos .. Len(tarjan.tarjanStack) }]_vars

\* A finished traversal in which a close step popped two states at once
\* while another state stayed on the open-path stack below them.
C31_Witness ==
    /\ SccDone /\ ~dropNaiveSccs /\ ~onlyBottomSccs
    /\ Len(SccBlocks) = 2
    /\ Cardinality(SccBlocks[1]) = 2
    /\ \E s \in SccBlocks[2] : \E t \in SccBlocks[1] : HasEdge(s, t)

(***************************************************************************)
(* The recursive formulation of Tarjan's algorithm with the same options:  *)
(* start states in ascending order, successors in row order.               *)
(***************************************************************************)
RecInit ==
    [ index    |-> [s \in States |-> 0],
      lowlink  |-> [s \in States |-> 0],
      visited  |-> {},
      counter  |-> 0,
      open     |-> <<>>,
      selfloop |-> {},
      canLeave |-> {},
      blocks   |-> <<>> ]

\* The open path of r from its topmost occurrence of v to the top.
RecTop(r, v) ==
    LET pos == CHOOSE k \in 1 .. Len(r.open) :
                   r.open[k] = v /\ \A j \in (k + 1) .. Len(r.open) : r.open[j] # v
    IN [below |-> SubSeq(r.open, 1, pos - 1),
        scc   |-> { r.open[j] : j \in pos .. Len(r.open) }]

\* The end of the call for v: if v is a root, its SCC leaves the open path
\* and is emitted unless an option filters it.
RecClose(r, v, drop, bottom) ==
    IF r.lowlink[v] # r.index[v] THEN r
    ELSE LET top  == RecTop(r, v)
             keep == /\ drop => (Cardinality(top.scc) > 1 \/ top.scc \subseteq r.selfloop)
                     /\ bottom => top.scc \cap r.canLeave = {}
         IN [r EXCEPT !.open   = top.below,
                      !.blocks = IF keep THEN Append(@, top.scc) ELSE @]

RECURSIVE RecVisit(_, _, _, _, _)
RECURSIVE RecSuccessors(_, _, _, _, _, _)
\* The call for the unvisited state v.
RecVisit(r, v, sub, drop, bottom) ==
    LET entered == [r EXCEPT !.visited = @ \cup {v},
                             !.index   = [@ EXCEPT ![v] = r.counter],
                             !.lowlink = [@ EXCEPT ![v] = r.counter],
                             !.counter = @ + 1,
                             !.open    = Append(@, v)]
    IN RecClose(RecSuccessors(entered, v, 1, sub, drop, bottom), v, drop, bottom)

\* The loop of the call for v over the successors of v from position i on.
RecSuccessors(r, v, i, sub, drop, bottom) ==
    IF i > Len(Successors(v)) THEN r
    ELSE LET w    == Successors(v)[i]
             seen == IF drop /\ w = v
                     THEN [r EXCEPT !.selfloop = @ \cup {v}] ELSE r
         IN IF w \in sub /\ w \notin seen.visited
            THEN LET back == RecVisit(seen, w, sub, drop, bottom)
                     low  == Min(back.lowlink[v], back.lowlink[w])
                     done == [back EXCEPT
                                 !.lowlink  = [@ EXCEPT ![v] = low],
                                 !.canLeave = IF bottom /\ low # back.lowlink[w]
                                              THEN @ \cup {v} ELSE @]
                 IN RecSuccessors(done, v, i + 1, sub, drop, bottom)
            ELSE IF w \in sub /\ \E k \in 1 .. Len(seen.open) : seen.open[k] = w
            THEN RecSuccessors(
                     [seen EXCEPT !.lowlink =
                          [@ EXCEPT ![v] = Min(seen.lowlink[v], seen.index[w])]],
                     v, i + 1, sub, drop, bottom)
            ELSE RecSuccessors(seen, v, i + 1, sub, drop, bottom)

\* The loop over the start states from state v on; the self-loop and
\* can-leave marks are local to the call for one start state.
RECURSIVE RecOuter(_, _, _, _, _)
RecOuter(r, v, sub, drop, bottom) ==
    IF v >= NumStates THEN r
    ELSE IF v \in sub /\ v \notin r.visited
    THEN RecOuter(RecVisit([r EXCEPT !.selfloop = {}, !.canLeave = {}],
                           v, sub, drop, bottom),
                  v + 1, sub, drop, bottom)
    ELSE RecOuter(r, v + 1, sub, drop, bottom)

RecursiveTarjan(sub, drop, bottom) == RecOuter(RecInit, 0, sub, drop, bottom)

\* C32: the traversal with explicit stacks assigns every state the index and
\* the final lowlink of the recursive formulation and emits the same blocks
\* in the same order, for every graph, subsystem and pair of options.
C32_SameAsRecursive ==
    SccDone =>
        LET rec == RecursiveTarjan(subsystem, dropNaiveSccs, onlyBottomSccs) IN
        /\ tarjan.stateIndices = rec.index
        /\ tarjan.lowlinks = rec.lowlink
        /\ tarjan.visitedStates = rec.visited
        /\ SccBlocks = rec.blocks

\* A finished traversal that descended twice in a row and returned twice,
\* with a lowlink taken over from a successor's call: a cycle through the
\* three states entered at state 0.
C32_Witness ==
    /\ SccDone
    /\ subsystem = States
    /\ tarjan.stateIndices[2] = 1 /\ tarjan.stateIndices[1] = 2
    /\ tarjan.lowlinks[1] = 0 /\ tarjan.lowlinks[2] = 0

\* The states on the open-path stack.
OpenStates == Range(tarjan.tarjanStack)

\* The traversal is running: the SCC decomposition was started on its own
\* and has not ended.
Traversing == tarjan.label \in {"outer", "forward", "successors", "backward"}

\* C33: at every step of the traversal every state s on the open-path stack
\* has lowlink[s] <= index[s], and lowlink[s] is the index of a state on the
\* open-path stack; the visited states carry the indices 0, 1, 2, ... and
\* the index counter equals the number of visited states.
C33_LowlinkOnOpenPath ==
    /\ \A s \in OpenStates :
           /\ tarjan.lowlinks[s] <= tarjan.stateIndices[s]
           /\ \E t \in OpenStates : tarjan.stateIndices[t] = tarjan.lowlinks[s]
    /\ tarjan.currentIndex = Cardinality(tarjan.visitedStates)
    /\ { tarjan.stateIndices[s] : s \in tarjan.visitedStates }
           = 0 .. (tarjan.currentIndex - 1)

\* During a traversal a state on the open-path stack has a lowlink smaller
\* than its index, taken from another state of the stack.
C33_Witness ==
    /\ Traversing
    /\ \E s \in OpenStates : \E t \in OpenStates :
           /\ s # t
           /\ tarjan.lowlinks[s] < tarjan.stateIndices[s]
           /\ tarjan.lowlinks[s] = tarjan.stateIndices[t]

\* A loop head of the traversal: of the loop over the start states, of the
\* loop over the recursion stack, or of the loop over the successors.
LoopHead == tarjan.label \in {"outer", "forward", "successors"}

\* The two recursion stacks have equal length, the open-path stack holds no
\* state twice and the on-stack bits are those of the states on it.
StacksConsistent ==
    /\ Len(tarjan.recursionStateStack) = Len(tarjan.recursionIteratorStack)
    /\ \A s \in OpenStates : Cardinality(PositionsOf(s)) = 1
    /\ tarjan.tarjanStackStates = OpenStates

\* The state on top of the recursion stack that has been pushed and not yet
\* received its index (the head of the loop over the recursion stack).
Untreated ==
    IF tarjan.label = "forward" THEN {CurrentState} ELSE {}

\* C34 as stated: at every loop head the stacks are consistent and every
\* state on the recursion stack is on the open-path stack.
C34_FramesOnOpenPath ==
    LoopHead => (StacksConsistent /\ FrameStates \subseteq OpenStates)

\* C34, amended: at every loop head the stacks are consistent and every
\* state on the recursion stack is on the open-path stack, except the state
\* on top that was just pushed and is treated next.
C34_TreatedFramesOnOpenPath ==
    LoopHead =>
        /\ StacksConsistent
        /\ (FrameStates \ Untreated) \subseteq OpenStates
        /\ Untreated \cap OpenStates = {}

\* The head of the loop over the recursion stack after a descent: the state
\* on top is not yet on the open-path stack, the one below it is.
C34_Witness ==
    /\ tarjan.label = "forward"
    /\ Len(tarjan.recursionStateStack) >= 2
    /\ CurrentState \notin OpenStates
    /\ tarjan.recursionStateStack[1] \in OpenStates

\* No traversal from a start state is running: before the first one, between
\* two of them, or after the last one.
BetweenTraversals == tarjan.label \in {"outer", "done"}

\* C35: when the traversal from a start state has returned, the open-path
\* stack and the recursion stacks are empty; without filtering options every
\* visited state is then in exactly one emitted block; and whenever an SCC
\* is closed, every state on the open-path stack got its index during the
\* running traversal, so no SCC spans two traversals and the self-loop and
\* can-leave marks of the running traversal cover all its members.
C35_OpenPathEmptyOnReturn ==
    /\ BetweenTraversals =>
          /\ tarjan.tarjanStack = <<>>
          /\ tarjan.tarjanStackStates = {}
          /\ tarjan.recursionStateStack = <<>>
          /\ (~dropNaiveSccs /\ ~onlyBottomSccs) =>
                \A s \in tarjan.visitedStates :
                    Cardinality({ i \in 1 .. Len(SccBlocks) : s \in SccBlocks[i] }) = 1
    /\ AtRoot =>
          \A s \in OpenStates :
              tarjan.stateIndices[s]
                  >= tarjan.stateIndices[tarjan.recursionStateStack[1]]

\* Between two traversals: one has returned after closing an SCC of two
\* states, and a state of the subsystem is still unvisited.
C35_Witness ==
    /\ tarjan.label = "outer"
    /\ NextStartStates(tarjan, subsystem) # {}
    /\ \E i \in 1 .. Len(SccBlocks) : Cardinality(SccBlocks[i]) = 2

\* Some state of block A has an edge to a state of block B.
BlockEdge(A, B) == \E s \in A : \E t \in B : HasEdge(s, t)

\* C36: the output is in reverse topological order of the condensation: if
\* a state of the block at position i has an edge to a state of the block at
\* another position j, then j < i.
C36_ReverseTopological ==
    SccDone =>
        \A i \in 1 .. Len(SccBlocks) : \A j \in 1 .. Len(SccBlocks) :
            (i # j /\ BlockEdge(SccBlocks[i], SccBlocks[j])) => j < i

\* A finished run with three blocks forming a chain: the last block has an
\* edge to the second and the second to the first.
C36_Witness ==
    /\ SccDone
    /\ Len(SccBlocks) = 3
    /\ BlockEdge(SccBlocks[3], SccBlocks[2])
    /\ BlockEdge(SccBlocks[2], SccBlocks[1])

\* C37: an entry of value 0 is no edge.  The blocks are the SCCs of the
\* graph of the positive entries, and with dropNaiveSccs a singleton block
\* is kept only for a state with a positive entry to itself.
C37_ZeroWeightNoEdge ==
    SccDone =>
        /\ \A s \in subsystem : \A t \in subsystem :
               (\E i \in 1 .. Len(SccBlocks) : s \in SccBlocks[i] /\ t \in SccBlocks[i])
                   => SameScc(s, t, subsystem)
        /\ dropNaiveSccs =>
               \A i \in 1 .. Len(SccBlocks) : ~IsTrivialScc(SccBlocks[i])

(***************************************************************************)
(* GmmxxNondeterministicLinearEquationSolver::solveEquationSystem: the     *)
(* buffers of the power iteration.  A vector is represented by the number  *)
(* of iterations whose result it holds (0 for the x the caller passed in), *)
(* or by Garbage.  The buffers are "x" (the caller's output vector),       *)
(* "newX" and "multiplyResult" (the caller's or allocated by the call).    *)
(***************************************************************************)
\* Largest maximalNumberOfIterations explored.
MaxIterations == 3

\* The content of a vector nothing meaningful was written to.
Garbage == -1

\* The call is entered: the arguments, and the buffers the caller owns.
SolverEntry(minimize, multiplyResultGiven, newXGiven, maxIterations) ==
    [ label                        |-> "setup",
      minimize                     |-> minimize,
      multiplyResultGiven          |-> multiplyResultGiven,
      newXGiven                    |-> newXGiven,
      maximalNumberOfIterations    |-> maxIterations,
      content                      |-> [x |-> 0, newX |-> Garbage,
                                        multiplyResult |-> Garbage],
      live                         |-> [x |-> TRUE, newX |-> newXGiven,
                                        multiplyResult |-> multiplyResultGiven],
      allocated                    |-> {},
      freed                        |-> {},
      multiplyResultMemoryProvided |-> TRUE,
      xMemoryProvided              |-> TRUE,
      currentX                     |-> "x",
      newX                         |-> "newX",
      copyX                        |-> "newX",
      iterations                   |-> 0,
      converged                    |-> FALSE ]

\* Lines 85-102: scratch memory that was not provided is created.
SetupBuffers(s) ==
    [s EXCEPT !.label = "loop",
              !.multiplyResultMemoryProvided = s.multiplyResultGiven,
              !.xMemoryProvided = s.newXGiven,
              !.live = [x |-> TRUE, newX |-> TRUE, multiplyResult |-> TRUE],
              !.allocated = (IF s.multiplyResultGiven THEN {} ELSE {"multiplyResult"})
                                \cup (IF s.newXGiven THEN {} ELSE {"newX"}),
              !.currentX = "x",
              !.newX = "newX",
              !.copyX = "newX",
              !.iterations = 0,
              !.converged = FALSE]

\* while (!converged && iterations < maximalNumberOfIterations)
LoopRuns(s) == ~s.converged /\ s.iterations < s.maximalNumberOfIterations

\* One iteration, lines 108-123: multiplyResult = A * currentX + b, newX =
\* the reduced multiplyResult, the convergence test, the swap of the two
\* pointers.
Iterate(s, converged) ==
    LET result == s.content[s.currentX] + 1 IN
    [s EXCEPT !.content = [@ EXCEPT !["multiplyResult"] = result,
                                    ![s.newX] = result],
              !.converged = converged,
              !.currentX = s.newX,
              !.newX = s.currentX,
              !.iterations = @ + 1]

\* Mutant of NewestInCopy: the newest result is taken to be in x always.
NewestInCopy_Never(s) == FALSE

\* if (currentX == copyX)
NewestInCopy(s) == s.currentX = s.copyX

\* Lines 135-137: std::swap(x, *currentX) if the newest result is in the
\* auxiliary copy.
SwapBack(s) ==
    [s EXCEPT !.label = "cleanup",
              !.content = IF NewestInCopy(s)
                          THEN [@ EXCEPT !["x"] = s.content[s.currentX],
                                         ![s.currentX] = s.content["x"]]
                          ELSE @]

\* Lines 139-145: the scratch memory that was created is deleted.
FreeBuffers(s) ==
    LET deleted == (IF s.xMemoryProvided THEN {} ELSE {s.copyX})
                       \cup (IF s.multiplyResultMemoryProvided THEN {}
                             ELSE {"multiplyResult"})
    IN [s EXCEPT !.label = "returned",
                 !.freed = @ \cup deleted,
                 !.live = [b \in DOMAIN @ |-> @[b] /\ b \notin deleted]]

InitSolver ==
    /\ \E minimize \in BOOLEAN, multiplyResultGiven \in BOOLEAN,
          newXGiven \in BOOLEAN, maxIterations \in 0 .. MaxIterations :
          solver = SolverEntry(minimize, multiplyResultGiven, newXGiven,
                               maxIterations)
    /\ transitionMatrix = <<>>
    /\ nondeterministicChoiceIndices = [s \in 0 .. NumStates |-> 0]
    /\ subsystem = {}
    /\ dropNaiveSccs = FALSE
    /\ onlyBottomSccs = FALSE
    /\ tarjan = TarjanIdle
    /\ endComponentStateSets = <<>>
    /\ mecIterator = 1
    /\ sccs = <<>>
    /\ sccIterator = 1
    /\ statesToCheck = {}
    /\ mecChanged = FALSE
    /\ mecBlocks = <<>>
    /\ mecLabel = "idle"
    /\ passes = 0

solverFrame == <<transitionMatrix, nondeterministicChoiceIndices, subsystem,
                 dropNaiveSccs, onlyBottomSccs, tarjan, mecVars>>

Setup ==
    /\ solver.label = "setup"
    /\ solver' = SetupBuffers(solver)
    /\ UNCHANGED solverFrame

\* The convergence test depends on the numbers in the vectors: either
\* outcome is possible.
Iteration ==
    /\ solver.label = "loop"
    /\ LoopRuns(solver)
    /\ \E converged \in BOOLEAN : solver' = Iterate(solver, converged)
    /\ UNCHANGED solverFrame

LoopExit ==
    /\ solver.label = "loop"
    /\ ~LoopRuns(solver)
    /\ solver' = SwapBack(solver)
    /\ UNCHANGED solverFrame

Cleanup ==
    /\ solver.label = "cleanup"
    /\ solver' = FreeBuffers(solver)
    /\ UNCHANGED solverFrame

NextSolver ==
    \/ Setup
    \/ Iteration
    \/ LoopExit
    \/ Cleanup

SpecSolver == InitSolver /\ [][NextSolver]_vars

SolverReturned == solver.label = "returned"

\* C38: when solveEquationSystem returns, x holds the result of the last
\* iteration performed (the x passed in if there was none), whatever the
\* number of iterations and whether or not newX and multiplyResult were
\* supplied; the vectors the call allocated, and only those, were freed, and
\* every read and write went to a live vector.
C38_OutputInXAndScratchFreed ==
    /\ SolverReturned =>
          /\ solver.content["x"] = solver.iterations
          /\ solver.freed = solver.allocated
          /\ solver.live["x"]
          /\ solver.live["newX"] = solver.newXGiven
          /\ solver.live["multiplyResult"] = solver.multiplyResultGiven
    /\ solver.label \in {"loop", "cleanup"} =>
          /\ solver.live[solver.currentX]
          /\ solver.live[solver.newX]
          /\ solver.live["multiplyResult"]

\* A call without a supplied newX that returned after an odd number of
\* iterations greater than one.
C38_Witness ==
    /\ SolverReturned
    /\ ~solver.newXGiven
    /\ solver.iterations = 3

====
